---------------------------- MODULE Spec2Model ----------------------------
(***************************************************************************)
(* A model of the filter-list ad blocker of ai-browser (class AdBlocker):  *)
(* the filter-list parser, the rule matcher, the list loader with its      *)
(* cache and the webRequest handler.  JavaScript strings are TLA+ strings  *)
(* (TLC evaluates Len, SubSeq and \o on them); string positions are        *)
(* 1-based here and 0-based in the source.                                 *)
(***************************************************************************)
EXTENDS Integers, Sequences, FiniteSets, TLC

(***************************************************************************)
(* String primitives of the JavaScript runtime used by the source.         *)
(***************************************************************************)
\* String.prototype.substring, 1-based and inclusive: the characters of s at
\* the positions a..b that s has
Slice(s, a, b) ==
    SubSeq(s, IF a < 1 THEN 1 ELSE a, IF b > Len(s) THEN Len(s) ELSE b)

CharAt(s, i) == Slice(s, i, i)

StartsWith(s, p) == Len(p) <= Len(s) /\ Slice(s, 1, Len(p)) = p

EndsWith(s, p) == Len(p) <= Len(s) /\ Slice(s, Len(s) - Len(p) + 1, Len(s)) = p

Includes(s, p) ==
    \E i \in 1..(Len(s) - Len(p) + 1) : Slice(s, i, i + Len(p) - 1) = p

\* String.prototype.indexOf for a one-character needle: the first position
\* of c in s, 0 when there is none (the source's -1).
IndexOf(s, c) ==
    LET hits == {i \in 1..Len(s) : CharAt(s, i) = c}
    IN  IF hits = {} THEN 0 ELSE CHOOSE i \in hits : \A j \in hits : i <= j

LastIndexOf(s, c) ==
    LET hits == {i \in 1..Len(s) : CharAt(s, i) = c}
    IN  IF hits = {} THEN 0 ELSE CHOOSE i \in hits : \A j \in hits : j <= i

WhiteSpace == {" ", "\t", "\r", "\n", "\f"}

LineTerminators == {"\n", "\r"}

\* The first position from i on that holds no white space (Len(s) + 1 when
\* there is none), and the last position down from i (0 when there is none)
RECURSIVE SkipSpace(_, _)
SkipSpace(s, i) ==
    IF i <= Len(s) /\ CharAt(s, i) \in WhiteSpace THEN SkipSpace(s, i + 1) ELSE i

RECURSIVE SkipSpaceBack(_, _)
SkipSpaceBack(s, i) ==
    IF i >= 1 /\ CharAt(s, i) \in WhiteSpace THEN SkipSpaceBack(s, i - 1) ELSE i

\* String.prototype.trim
Trim(s) == Slice(s, SkipSpace(s, 1), SkipSpaceBack(s, Len(s)))

\* String.prototype.split for a one-character separator: the pieces between
\* consecutive separators, in order (a string with no separator is one piece).
Split(s, sep) ==
    LET cuts == {i \in 1..Len(s) : CharAt(s, i) = sep}
        n    == Cardinality(cuts)
        \* position of the k-th separator; 0 before the first, Len+1 after the last
        CutAt(k) == IF k = 0 THEN 0
                    ELSE IF k = n + 1 THEN Len(s) + 1
                    ELSE CHOOSE i \in cuts : Cardinality({j \in cuts : j <= i}) = k
    IN  [k \in 1..(n + 1) |-> Slice(s, CutAt(k - 1) + 1, CutAt(k) - 1)]

UpperLetters == "ABCDEFGHIJKLMNOPQRSTUVWXYZ"
LowerLetters == "abcdefghijklmnopqrstuvwxyz"

LowerOf ==
    [c \in {CharAt(UpperLetters, k) : k \in 1..Len(UpperLetters)} |->
        CharAt(LowerLetters, IndexOf(UpperLetters, c))]

\* The lower-case form of one character (ASCII letters; others unchanged).
LowerChar(c) == IF c \in DOMAIN LowerOf THEN LowerOf[c] ELSE c

RECURSIVE ToLowerCase(_)
ToLowerCase(s) ==
    IF s = "" THEN "" ELSE LowerChar(Head(s)) \o ToLowerCase(Tail(s))

\* String.prototype.repeat, by doubling
RECURSIVE Repeat(_, _)
Repeat(s, n) ==
    IF n = 0 THEN ""
    ELSE LET half == Repeat(s, n \div 2)
         IN  IF n % 2 = 0 THEN half \o half ELSE half \o half \o s

\* The left fold of \o over a sequence of strings (Array.prototype.join(""))
RECURSIVE Concat(_)
Concat(ss) == IF ss = <<>> THEN "" ELSE Head(ss) \o Concat(Tail(ss))

\* Array.prototype.flatMap(x => x) over a sequence of sequences
RECURSIVE Flatten(_)
Flatten(ss) == IF ss = <<>> THEN <<>> ELSE Head(ss) \o Flatten(Tail(ss))

(***************************************************************************)
(* Regular expressions.  A compiled RegExp is the record RegExp(source);   *)
(* Null is the source's null.  The filter lines of the model never hold a  *)
(* backslash except as their last character, so the metacharacters left in *)
(* a source built by patternToRegex are . .* ^ $ | and the escapes \c of   *)
(* the characters patternToRegex escapes.                                  *)
(***************************************************************************)
Null == [null |-> TRUE]

RegExp(source) == [null |-> FALSE, source |-> source]

\* String.prototype.replace(/[set]/g, f): every character of s that is in
\* the set is replaced by f[c], the others are kept.
RECURSIVE ReplaceChars(_, _, _)
ReplaceChars(s, set, f) ==
    IF s = "" THEN ""
    ELSE (IF Head(s) \in set THEN f[Head(s)] ELSE Head(s))
         \o ReplaceChars(Tail(s), set, f)

RegexSpecials == {".", "+", "[", "]", "{", "}", "(", ")"}

\* The number of backslashes that end s
RECURSIVE TrailingBackslashes(_)
TrailingBackslashes(s) ==
    IF s = "" \/ CharAt(s, Len(s)) # "\\" THEN 0
    ELSE 1 + TrailingBackslashes(Slice(s, 1, Len(s) - 1))

\* new RegExp(source, 'i') throws a SyntaxError for a source that ends in an
\* unescaped backslash ("\ at end of pattern").
RegExpCompiles(source) == TrailingBackslashes(source) % 2 = 0

\* The atoms of a regular-expression source from position i on: a literal,
\* . (any character but a line terminator), .* , the assertions ^ and $, and
\* the alternation bar.
RECURSIVE Atoms(_, _)
Atoms(src, i) ==
    IF i > Len(src) THEN <<>>
    ELSE LET c == CharAt(src, i)
         IN  CASE c = "\\" /\ i < Len(src) ->
                    <<[k |-> "lit", c |-> CharAt(src, i + 1)]>> \o Atoms(src, i + 2)
               [] c = "." /\ i < Len(src) /\ CharAt(src, i + 1) = "*" ->
                    <<[k |-> "anystar", c |-> ""]>> \o Atoms(src, i + 2)
               [] c = "." -> <<[k |-> "any", c |-> ""]>> \o Atoms(src, i + 1)
               [] c = "^" -> <<[k |-> "bol", c |-> ""]>> \o Atoms(src, i + 1)
               [] c = "$" -> <<[k |-> "eol", c |-> ""]>> \o Atoms(src, i + 1)
               [] c = "|" -> <<[k |-> "alt", c |-> ""]>> \o Atoms(src, i + 1)
               [] OTHER   -> <<[k |-> "lit", c |-> c]>> \o Atoms(src, i + 1)

\* Whether atoms[k..] match s from position i on (flag i: letters compare
\* without case).
RECURSIVE MatchHere(_, _, _, _)
MatchHere(atoms, k, s, i) ==
    IF k > Len(atoms) THEN TRUE
    ELSE LET a == atoms[k]
         IN  CASE a.k = "lit" ->
                    /\ i <= Len(s)
                    /\ LowerChar(CharAt(s, i)) = LowerChar(a.c)
                    /\ MatchHere(atoms, k + 1, s, i + 1)
               [] a.k = "any" ->
                    /\ i <= Len(s)
                    /\ CharAt(s, i) \notin LineTerminators
                    /\ MatchHere(atoms, k + 1, s, i + 1)
               [] a.k = "anystar" ->
                    \E j \in i..(Len(s) + 1) :
                        /\ \A m \in i..(j - 1) : CharAt(s, m) \notin LineTerminators
                        /\ MatchHere(atoms, k + 1, s, j)
               [] a.k = "bol" -> i = 1 /\ MatchHere(atoms, k + 1, s, i)
               [] a.k = "eol" -> i = Len(s) + 1 /\ MatchHere(atoms, k + 1, s, i)
               [] OTHER -> FALSE

\* The alternatives of an atom sequence: the runs between alternation bars.
Alternatives(atoms) ==
    LET bars == {i \in 1..Len(atoms) : atoms[i].k = "alt"}
        n    == Cardinality(bars)
        BarAt(k) == IF k = 0 THEN 0
                    ELSE IF k = n + 1 THEN Len(atoms) + 1
                    ELSE CHOOSE i \in bars : Cardinality({j \in bars : j <= i}) = k
    IN  {Slice(atoms, BarAt(k - 1) + 1, BarAt(k) - 1) : k \in 1..(n + 1)}

\* RegExp.prototype.test: some alternative matches at some position of s.
RegExpTest(re, s) ==
    \E alt \in Alternatives(Atoms(re.source, 1)) :
        \E i \in 1..(Len(s) + 1) : MatchHere(alt, 1, s, i)

(***************************************************************************)
(* The filter-list parser.                                                 *)
(***************************************************************************)
\* patternToRegex: escape . + [ ] { } ( ), turn * into .* and ? into . , and
\* compile; null when the source does not compile.
PatternToRegex(pattern) ==
    LET escaped == ReplaceChars(pattern, RegexSpecials,
                                [c \in RegexSpecials |-> "\\" \o c])
        starred == ReplaceChars(escaped, {"*"}, [c \in {"*"} |-> ".*"])
        regex   == ReplaceChars(starred, {"?"}, [c \in {"?"} |-> "."])
    IN  IF RegExpCompiles(regex) THEN RegExp(regex) ELSE Null

\* The text the source substitutes for each ^ of a separator rule
SeparatorClass == "[^a-zA-Z0-9._%-]*"

UnsupportedOptions == {"script", "stylesheet", "xmlhttprequest"}

\* rule.match(/\$([^$]+)$/): the rule holds a $ and its last $ is not its
\* last character.
OptionsMatch(rule) ==
    LastIndexOf(rule, "$") # 0 /\ LastIndexOf(rule, "$") < Len(rule)

\* optionsMatch[1].split(','), [] when there is no match
Options(rule) ==
    IF OptionsMatch(rule)
    THEN Split(Slice(rule, LastIndexOf(rule, "$") + 1, Len(rule)), ",")
    ELSE <<>>

\* rule.substring(0, rule.indexOf('$')) when there is a match, else the rule
RuleWithoutOptions(rule) ==
    IF OptionsMatch(rule) THEN Slice(rule, 1, IndexOf(rule, "$") - 1) ELSE rule

\* s.replace(/\^.*$/, ''): s cut at its first ^ that no line terminator follows
CutAtSeparator(s) ==
    LET cuts == {i \in 1..Len(s) :
                    /\ CharAt(s, i) = "^"
                    /\ \A j \in (i + 1)..Len(s) : CharAt(s, j) \notin LineTerminators}
    IN  IF cuts = {} THEN s
        ELSE Slice(s, 1, (CHOOSE i \in cuts : \A j \in cuts : i <= j) - 1)

\* ruleWithoutOptions.replace(/^\|\|/, '').replace(/\^.*$/, '')
DomainPattern(r) ==
    CutAtSeparator(IF StartsWith(r, "||") THEN Slice(r, 3, Len(r)) ELSE r)

\* A variant of parseFilterRule that keeps the rules with unsupported options
ParseFilterRuleAnyOption(rule) ==
    LET r == RuleWithoutOptions(rule)
    IN  IF Includes(r, "||")
        THEN [type |-> "domain", pattern |-> DomainPattern(r), rule |-> r]
        ELSE [type |-> "substring", pattern |-> r, rule |-> r]

\* parseFilterRule: the rule record, or Null
ParseFilterRule(rule) ==
    LET options == Options(rule)
        r       == RuleWithoutOptions(rule)
    IN  IF \E k \in 1..Len(options) :
              \E opt \in UnsupportedOptions : Includes(options[k], opt)
        THEN Null
        ELSE IF Includes(r, "||")
        THEN [type |-> "domain", pattern |-> DomainPattern(r), rule |-> r]
        ELSE IF StartsWith(r, "|")
        THEN [type |-> "start", pattern |-> Slice(r, 2, Len(r)), rule |-> r]
        ELSE IF EndsWith(r, "|")
        THEN [type |-> "end", pattern |-> Slice(r, 1, Len(r) - 1), rule |-> r]
        ELSE IF Includes(r, "^")
        THEN [type |-> "regex",
              pattern |-> PatternToRegex(
                  ReplaceChars(r, {"^"}, [c \in {"^"} |-> SeparatorClass])),
              rule |-> r]
        ELSE [type |-> "substring", pattern |-> r, rule |-> r]

MinRuleLen == 3
MaxRuleLen == 2048

\* One iteration of parseFilterList's loop: what a line adds to the pair
\* (rules, exceptions).
ParseLine(acc, line) ==
    LET trimmed == Trim(line)
    IN  IF \/ trimmed = ""
           \/ StartsWith(trimmed, "!")
           \/ StartsWith(trimmed, "#")
           \/ StartsWith(trimmed, "[Adblock")
        THEN acc
        ELSE IF StartsWith(trimmed, "@@")
        THEN LET exceptionRule == Trim(Slice(trimmed, 3, Len(trimmed)))
             IN  IF \/ exceptionRule = ""
                    \/ Len(exceptionRule) < MinRuleLen
                    \/ Len(exceptionRule) > MaxRuleLen
                 THEN acc
                 ELSE LET rule == ParseFilterRule(exceptionRule)
                      IN  IF rule # Null
                          THEN [acc EXCEPT !.exceptions = Append(@, rule)]
                          ELSE acc
        ELSE IF Len(trimmed) < MinRuleLen \/ Len(trimmed) > MaxRuleLen
        THEN acc
        ELSE LET rule == ParseFilterRule(trimmed)
             IN  IF rule # Null
                 THEN [acc EXCEPT !.rules = Append(@, rule)]
                 ELSE acc

RECURSIVE ParseLines(_, _, _)
ParseLines(acc, lines, k) ==
    IF k > Len(lines) THEN acc
    ELSE ParseLines(ParseLine(acc, lines[k]), lines, k + 1)

\* parseFilterList(data): the rules and the exceptions of a list's text
ParseFilterList(data) ==
    ParseLines([rules |-> <<>>, exceptions |-> <<>>], Split(data, "\n"), 1)

(***************************************************************************)
(* The URL parser (new URL(url)), for the strings of the model: a string   *)
(* that begins with http:// or https:// (what the webRequest filter        *)
(* delivers), or a string with no scheme, which the parser rejects.        *)
(***************************************************************************)
ForbiddenHostChars ==
    {" ", "#", "/", ":", "<", ">", "?", "@", "[", "\\", "]", "^", "|", "%"}

Digits == {"0", "1", "2", "3", "4", "5", "6", "7", "8", "9"}

\* The text after the scheme's "//", "" when the string has no http(s) scheme
AfterScheme(url) ==
    IF StartsWith(ToLowerCase(Slice(url, 1, 7)), "http://")
    THEN Slice(url, 8, Len(url))
    ELSE IF StartsWith(ToLowerCase(Slice(url, 1, 8)), "https://")
    THEN Slice(url, 9, Len(url))
    ELSE ""

\* The authority: the text up to the first / ? # or \
Authority(rest) ==
    LET ends == {i \in 1..Len(rest) : CharAt(rest, i) \in {"/", "?", "#", "\\"}}
    IN  IF ends = {} THEN rest
        ELSE Slice(rest, 1, (CHOOSE i \in ends : \A j \in ends : i <= j) - 1)

\* new URL(url): [ok |-> FALSE] when the constructor throws, else the
\* lower-cased host name without user info and port.
ParseURL(url) ==
    LET authority == Authority(AfterScheme(url))
        hostport  == Slice(authority, LastIndexOf(authority, "@") + 1, Len(authority))
        colon     == IndexOf(hostport, ":")
        host      == IF colon = 0 THEN hostport ELSE Slice(hostport, 1, colon - 1)
        port      == IF colon = 0 THEN "" ELSE Slice(hostport, colon + 1, Len(hostport))
    IN  IF \/ host = ""
           \/ \E i \in 1..Len(host) : CharAt(host, i) \in ForbiddenHostChars
           \/ \E i \in 1..Len(port) : CharAt(port, i) \notin Digits
        THEN [ok |-> FALSE, hostname |-> ""]
        ELSE [ok |-> TRUE, hostname |-> ToLowerCase(host)]

(***************************************************************************)
(* The matcher.                                                            *)
(***************************************************************************)
\* A variant of the domain test that accepts the pattern anywhere in the host
DomainMatchesAnywhere(hostname, pattern) == Includes(hostname, pattern)

\* case 'domain': the host is the pattern or ends with "." + pattern
DomainMatches(hostname, pattern) ==
    hostname = pattern \/ EndsWith(hostname, "." \o pattern)

\* The switch on the rule's type, for a URL the parser accepted
RuleMatches(rule, hostname, urlString) ==
    CASE rule.type = "domain"    -> DomainMatches(hostname, rule.pattern)
      [] rule.type = "start"     -> StartsWith(urlString, rule.pattern)
      [] rule.type = "end"       -> EndsWith(urlString, rule.pattern)
      [] rule.type = "regex"     ->
            rule.pattern # Null /\ RegExpTest(rule.pattern, urlString)
      [] rule.type = "substring" -> Includes(urlString, rule.pattern)
      [] OTHER -> FALSE

\* A variant of the catch branch that tries the pattern of every rule
FallbackMatchesAnyType(rule, url) ==
    IF rule.type = "regex" THEN FALSE ELSE Includes(url, rule.pattern)

\* The catch branch: only substring rules, on the raw string
FallbackMatches(rule, url) ==
    rule.type = "substring" /\ Includes(url, rule.pattern)

\* The loop over a rule list, in either branch
AnyRuleMatches(rules, url) ==
    LET urlObj == ParseURL(url)
    IN  IF urlObj.ok
        THEN \E k \in 1..Len(rules) : RuleMatches(rules[k], urlObj.hostname, url)
        ELSE \E k \in 1..Len(rules) : FallbackMatches(rules[k], url)

\* matchesException(url)
MatchesException(exceptions, url) ==
    IF url = "" THEN FALSE ELSE AnyRuleMatches(exceptions, url)

\* A variant of shouldBlock that consults the block rules before the exceptions
ShouldBlockBlockFirst(enabled, filters, exceptions, url) ==
    IF ~enabled \/ url = "" THEN FALSE
    ELSE IF AnyRuleMatches(filters, url) THEN TRUE
    ELSE FALSE

\* shouldBlock(url)
ShouldBlock(enabled, filters, exceptions, url) ==
    IF ~enabled \/ url = "" THEN FALSE
    ELSE IF MatchesException(exceptions, url) THEN FALSE
    ELSE AnyRuleMatches(filters, url)

\* A variant of the handler without the main-frame test
HandlerCancelsAnyType(enabled, filters, exceptions, url, resourceType) ==
    IF ~enabled THEN FALSE
    ELSE ShouldBlock(enabled, filters, exceptions, url)

\* The onBeforeRequest handler: whether the callback gets {cancel: true}
HandlerCancels(enabled, filters, exceptions, url, resourceType) ==
    IF ~enabled THEN FALSE
    ELSE IF resourceType = "mainFrame" THEN FALSE
    ELSE ShouldBlock(enabled, filters, exceptions, url)

\* The rest of the handler once the blocker is known to be enabled: the
\* arguments of the callback invocations, in order ({} is cancel FALSE)
EnabledCallbacks(filters, exceptions, url, resourceType) ==
    IF resourceType = "mainFrame" THEN <<[cancel |-> FALSE]>>
    ELSE IF ShouldBlock(TRUE, filters, exceptions, url)
    THEN <<[cancel |-> TRUE]>>
    ELSE <<[cancel |-> FALSE]>>

\* A variant of the handler whose disabled branch does not return
HandlerCallbacksNoReturn(enabled, filters, exceptions, url, resourceType) ==
    (IF ~enabled THEN <<[cancel |-> FALSE]>> ELSE <<>>)
    \o EnabledCallbacks(filters, exceptions, url, resourceType)

\* The onBeforeRequest handler: the callback invocations of one request
HandlerCallbacks(enabled, filters, exceptions, url, resourceType) ==
    IF ~enabled THEN <<[cancel |-> FALSE]>>
    ELSE EnabledCallbacks(filters, exceptions, url, resourceType)

(***************************************************************************)
(* The state.                                                              *)
(***************************************************************************)
VARIABLES
    filterRules,      \* this.filterRules
    exceptionRules,   \* this.exceptionRules
    isEnabled,        \* this.isEnabled
    filterCache,      \* this.filterCache: list URL -> raw text, for the URLs cached
    handlerInstalled, \* whether session.webRequest.onBeforeRequest holds the handler
    loads,            \* the loadFilterLists calls in progress (call: the number of the
                      \* call, counted from 1), in the order they started
    started,          \* the number of loadFilterLists calls so far
    completed,        \* the number of them that returned
    config,           \* known_block_lists of the configuration file (no list when the
                      \* file cannot be read)
    configReadable,   \* whether readFileSync and JSON.parse of that file succeed
    remote,           \* list URL -> the text its server answers with
    unresponsive,     \* the list URLs whose server never answers
    probe,            \* the URL the run asks about
    lastCall,         \* the shouldBlock call or handled request of the last step, if it was one
    lastLoad,         \* history: the settled fetches of the call that installed rules last
    prevLoad,         \* history: the same for the call that installed rules before it,
                      \* without the order its fetches settled in
    lastReturn,       \* history: how the call that returned last returned
    beforeDisable,    \* history: the verdict on probe when the blocker was last disabled
    adBlockerEnabled, \* adBlocker.js: isEnabled
    stats,            \* adBlocker.js: stats
    lastBlockerStats, \* adBlocker.js: lastBlockerStats
    saveTimer,        \* adBlocker.js: handle: whether updateStats.timeout holds a timer;
                      \* pending: the number of timers of updateStats not yet fired or cleared
    settingsFile,     \* storageHelper: the content of adblocker.json
    userSet,          \* history: the last setAdBlockerEnabled call of this process
    blocker,          \* adBlocker.js: blocker ("null" until initializeAdBlocker assigns it)
    initPending,      \* whether initializeAdBlocker waits for fromPrebuiltAdsAndTracking
    blockingIn,       \* the sessions the blocker has blocking enabled in
    appliedEarly,     \* history: the sessions applyAdBlockerToSession was called for
                      \* while the flag was set and blocker was still null
    blockerStats      \* what blocker.getStats() returns

\* The fields of an AdBlocker, its environment and its history
blockerVars ==
    <<filterRules, exceptionRules, isEnabled, filterCache, handlerInstalled,
      loads, started, completed, config, configReadable, remote, unresponsive,
      probe, lastLoad, prevLoad, lastReturn, beforeDisable>>

\* The state of the module adBlocker.js, the settings file and its history
sessionVars == <<blocker, initPending, blockingIn, appliedEarly, blockerStats>>

trackerVars ==
    <<adBlockerEnabled, stats, lastBlockerStats, saveTimer, settingsFile, userSet,
      blocker, initPending, blockingIn, appliedEarly, blockerStats>>

vars == <<filterRules, exceptionRules, isEnabled, filterCache, handlerInstalled,
          loads, started, completed, config, configReadable, remote,
          unresponsive, probe, lastCall, lastLoad, prevLoad, lastReturn,
          beforeDisable, adBlockerEnabled, stats, lastBlockerStats, saveTimer,
          settingsFile, userSet, blocker, initPending, blockingIn, appliedEarly,
          blockerStats>>

\* The number of loadFilterLists calls of a run
MaxLoads == 2

(***************************************************************************)
(* The inputs of the model: filter-list texts, list URLs, request URLs.    *)
(***************************************************************************)
ListUrlA == "https://l.io/a"
ListUrlB == "http://l.io/b"
ListUrlC == "https://l.io/c"

\* Two lists of a loaded type and one of a type that is not loaded
DefaultConfig ==
    << [id |-> "ads", type |-> "generic", urls |-> <<ListUrlA>>],
       [id |-> "regional", type |-> "regional", urls |-> <<ListUrlC>>],
       [id |-> "privacy", type |-> "privacy", urls |-> <<ListUrlB>>] >>

SingleConfig == << [id |-> "ads", type |-> "generic", urls |-> <<ListUrlA>>] >>

\* A configuration without a list of a loaded type that has URLs, and one
\* without known_block_lists
NoUsableConfig ==
    << [id |-> "regional", type |-> "regional", urls |-> <<ListUrlC>>],
       [id |-> "cookies", type |-> "cookies", urls |-> <<>>] >>
EmptyConfig == << >>

Configs == {DefaultConfig, NoUsableConfig, EmptyConfig}

\* The texts the two servers of DefaultConfig answer with
TextAds == "! ads\n||tracker.com^\n@@||cdn.tracker.com^"
TextPrivacy == "[Adblock Plus 2.0]\n/ads/\n||^\n@@/ads/ok"

\* The texts of the single list of SingleConfig
TextDomain == "||tracker.com^\n@@||tracker.com/allowed^"
TextMixed == "||tracker.com^\n/ads/\n@@||cdn.tracker.com^\n@@/ads/ok"
TextAnchors == "|https://px.\n.gif|\n@@ad|s^\n/p^"
TextEmptyPatterns == "||^\n$image\n@@$image"
MalformedLines == <<"", "!", "   ", "@@", "$script", Repeat("a", 5000)>>
TextMalformed ==
    Concat([k \in 1..Len(MalformedLines) |->
               IF k = 1 THEN MalformedLines[k] ELSE "\n" \o MalformedLines[k]])
TextMalformedAmongValid == "/ads/\n" \o TextMalformed \o "\n@@/ads/ok\n||tracker.com^"

\* Lines with text before ||, with two $, with a leading [, with options only
TextOddLines == "x||tracker.com^\n/ads$x$image\n[ads]\n$image"

\* Lines at the length limits: an exception line of 2049 characters (2047
\* after the @@), lines of 2 characters, a line of 2049 characters
TextLongLines ==
    "@@" \o Repeat("a", MaxRuleLen - 1) \o "\nab\n@@ab\n" \o Repeat("b", MaxRuleLen + 1)

\* A separator rule alone
TextSeparator == "/ads^"

\* Separator rules that end in a backslash: their expressions do not compile
TextUncompilable == "/ads^\\\n@@/ok^\\"

Texts == {TextDomain, TextMixed, TextAnchors, TextEmptyPatterns, TextMalformed,
          TextMalformedAmongValid, TextOddLines, TextLongLines, TextSeparator,
          TextUncompilable}

ResourceTypes == {"mainFrame", "script"}

\* The URLs shouldBlock is asked about
ProbeUrls ==
    { "https://tracker.com/allowed/x",
      "https://cdn.tracker.com/a.js",
      "https://TRACKER.com:80/p",
      "https://tracker.com.safe.io/a",
      "https://nottracker.com/ads/b.gif",
      "http://s.org/ads/ok?x",
      "https://px.io/",
      "s.org/ads/",
      "s.org/ads/ok",
      "tracker.com/p",
      "https://s.org/ADS?x",
      "https://s.org/adsx",
      "" }

LoaderProbeUrls == {"https://tracker.com/ads/x", "https://cdn.tracker.com/ads/ok"}

\* urls: ['http://*/*', 'https://*/*']: the requests the handler is called for
MatchesRequestFilter(url) == ParseURL(url).ok

NoCall == [op |-> "none", resourceType |-> "", result |-> FALSE]

NoSnapshot == [taken |-> FALSE, verdict |-> FALSE]

NoLoad == [returned |-> FALSE, call |-> 0, fetches |-> <<>>]

NoReturn == [returned |-> FALSE, value |-> FALSE, installed |-> FALSE]

EmptyRuleSet == [filterRules |-> <<>>, exceptionRules |-> <<>>]

(***************************************************************************)
(* loadFilterLists                                                         *)
(***************************************************************************)
LoadedTypes == {"generic", "privacy", "cookies"}

\* urlsToLoad: the URLs of the lists of a loaded type, in configuration order
RECURSIVE UrlsToLoad(_)
UrlsToLoad(lists) ==
    IF lists = <<>> THEN <<>>
    ELSE (IF Head(lists).type \in LoadedTypes THEN Head(lists).urls ELSE <<>>)
         \o UrlsToLoad(Tail(lists))

\* A variant whose cache hit resolves with the text of some cached URL
StartFetchAnyCached(cache, url) ==
    IF url \in DOMAIN cache
    THEN [url |-> url, status |-> "ok", settled |-> 0,
          data |-> cache[CHOOSE u \in DOMAIN cache : TRUE]]
    ELSE [url |-> url, status |-> "pending", settled |-> 0, data |-> ""]

\* What downloadAndParseFilterList starts with for a URL: the cached text,
\* resolved at once, or a pending request.  settled is history: the place of
\* the request among the requests of its call in the order they settle, 0
\* for a promise resolved from the cache.
StartFetch(cache, url) ==
    IF url \in DOMAIN cache
    THEN [url |-> url, status |-> "ok", settled |-> 0, data |-> cache[url]]
    ELSE [url |-> url, status |-> "pending", settled |-> 0, data |-> ""]

\* The place the next request of a call to settle takes
NextSettled(load) ==
    1 + Cardinality({k \in 1..Len(load.fetches) : load.fetches[k].settled > 0})

\* The texts a server may hold
ServedTexts == Texts \cup {TextAds, TextPrivacy}

\* resolve(this.parseFilterList(data)): the parse of each text a server may
\* hold.  parseFilterList reads nothing but its argument.
Parsed == [data \in ServedTexts |-> ParseFilterList(data)]

\* What a source contributes to results: its parsed text, or the empty
\* result of the catch handler
SourceResult(fetch) ==
    IF fetch.status = "ok" THEN Parsed[fetch.data]
    ELSE [rules |-> <<>>, exceptions |-> <<>>]

\* A variant that takes the results in the order the promises settled
BuildRuleSetAsSettled(fetches) ==
    LET byTime == SortSeq(fetches, LAMBDA a, b : a.settled < b.settled)
    IN  [filterRules    |-> Flatten([k \in 1..Len(byTime) |-> SourceResult(byTime[k]).rules]),
         exceptionRules |-> Flatten([k \in 1..Len(byTime) |-> SourceResult(byTime[k]).exceptions])]

\* results.flatMap(r => r.rules), results.flatMap(r => r.exceptions):
\* Promise.all resolves with the results in the order of downloadPromises
BuildRuleSet(fetches) ==
    [filterRules    |-> Flatten([k \in 1..Len(fetches) |-> SourceResult(fetches[k]).rules]),
     exceptionRules |-> Flatten([k \in 1..Len(fetches) |-> SourceResult(fetches[k]).exceptions])]

\* A variant that installs the new block rules beside the old exceptions
InstallRulesTorn(fetches, oldFilters, oldExceptions) ==
    [filterRules |-> BuildRuleSet(fetches).filterRules,
     exceptionRules |-> oldExceptions]

\* A variant without the catch handler: one rejected fetch rejects
\* Promise.all, and the call returns without installing anything
InstallRulesNoCatch(fetches, oldFilters, oldExceptions) ==
    IF \E k \in 1..Len(fetches) : fetches[k].status = "failed"
    THEN [filterRules |-> oldFilters, exceptionRules |-> oldExceptions]
    ELSE BuildRuleSet(fetches)

\* The two assignments after await Promise.all: no await separates them, so
\* no other callback runs between them
InstallRules(fetches, oldFilters, oldExceptions) == BuildRuleSet(fetches)

\* A call whose promises are all settled and whose continuation has not run
Ready(load) ==
    \A k \in 1..Len(load.fetches) : load.fetches[k].status # "pending"

\* The continuation of a settled Promise.all is a microtask: it runs before
\* any other event is handled
NoneReady == \A n \in 1..Len(loads) : ~Ready(loads[n])

\* loads without its n-th element
Remove(seq, n) == Slice(seq, 1, n - 1) \o Slice(seq, n + 1, Len(seq))

\* A variant of the catch handler that empties the rule lists
ConfigErrorClears(filters, exceptions) ==
    [filterRules |-> <<>>, exceptionRules |-> <<>>, value |-> FALSE]

\* catch (error) { return false }: what a call leaves and returns when the
\* configuration cannot be read or is not JSON
ConfigError(filters, exceptions) ==
    [filterRules |-> filters, exceptionRules |-> exceptions, value |-> FALSE]

\* loadFilterLists(filterListPath), up to its await; a call that cannot read
\* the configuration returns from its catch handler
StartLoad ==
    /\ NoneReady
    /\ started < MaxLoads
    /\ started' = started + 1
    /\ IF configReadable
       THEN /\ LET urls == UrlsToLoad(config)
               IN  loads' = Append(loads,
                       [call |-> started + 1,
                        fetches |-> [k \in 1..Len(urls) |->
                                        StartFetch(filterCache, urls[k])]])
            /\ UNCHANGED <<filterRules, exceptionRules, completed, lastReturn>>
       ELSE /\ LET after == ConfigError(filterRules, exceptionRules)
               IN  /\ filterRules' = after.filterRules
                   /\ exceptionRules' = after.exceptionRules
                   /\ lastReturn' = [returned |-> TRUE, value |-> after.value,
                                     installed |-> FALSE]
            /\ completed' = completed + 1
            /\ UNCHANGED loads
    /\ lastCall' = NoCall
    /\ UNCHANGED <<isEnabled, filterCache, handlerInstalled, config,
                   configReadable, remote, unresponsive, probe, lastLoad,
                   prevLoad, beforeDisable>>
    /\ UNCHANGED trackerVars

\* A response with status 200, read to its end: the text is cached and parsed
FetchOk(n, k) ==
    /\ NoneReady
    /\ loads[n].fetches[k].status = "pending"
    /\ loads[n].fetches[k].url \notin unresponsive
    /\ LET url  == loads[n].fetches[k].url
           data == remote[url]
       IN  /\ filterCache' = [u \in DOMAIN filterCache \cup {url} |->
                                 IF u = url THEN data ELSE filterCache[u]]
           /\ loads' = [loads EXCEPT ![n].fetches[k] =
                           [url |-> url, status |-> "ok",
                            settled |-> NextSettled(loads[n]), data |-> data]]
    /\ lastCall' = NoCall
    /\ UNCHANGED <<filterRules, exceptionRules, isEnabled, handlerInstalled,
                   started, completed, config, configReadable, remote, unresponsive, probe,
                   lastLoad, prevLoad, lastReturn, beforeDisable>>
    /\ UNCHANGED trackerVars

\* A variant of the rejection that drops the cached text of the URL
FetchFailDropsCache(n, k) ==
    /\ NoneReady
    /\ loads[n].fetches[k].status = "pending"
    /\ loads[n].fetches[k].url \notin unresponsive
    /\ loads' = [loads EXCEPT ![n].fetches[k].status = "failed",
                             ![n].fetches[k].settled = NextSettled(loads[n])]
    /\ filterCache' = [u \in DOMAIN filterCache \ {loads[n].fetches[k].url} |->
                          filterCache[u]]
    /\ lastCall' = NoCall
    /\ UNCHANGED <<filterRules, exceptionRules, isEnabled, handlerInstalled,
                   started, completed, config, configReadable, remote,
                   unresponsive, probe, lastLoad, prevLoad, lastReturn,
                   beforeDisable>>
    /\ UNCHANGED trackerVars

\* A response with another status, or a request error: the promise rejects
FetchFail(n, k) ==
    /\ NoneReady
    /\ loads[n].fetches[k].status = "pending"
    /\ loads[n].fetches[k].url \notin unresponsive
    /\ loads' = [loads EXCEPT ![n].fetches[k].status = "failed",
                             ![n].fetches[k].settled = NextSettled(loads[n])]
    /\ lastCall' = NoCall
    /\ UNCHANGED <<filterRules, exceptionRules, isEnabled, filterCache,
                   handlerInstalled, started, completed, config, configReadable, remote,
                   unresponsive, probe, lastLoad, prevLoad, lastReturn, beforeDisable>>
    /\ UNCHANGED trackerVars

\* After await Promise.all: install the rules, register the handler, return
LoadComplete(n) ==
    /\ Ready(loads[n])
    /\ LET new == InstallRules(loads[n].fetches, filterRules, exceptionRules)
       IN  /\ filterRules' = new.filterRules
           /\ exceptionRules' = new.exceptionRules
    /\ handlerInstalled' = TRUE
    /\ loads' = Remove(loads, n)
    /\ completed' = completed + 1
    /\ lastLoad' = [returned |-> TRUE, call |-> loads[n].call,
                  fetches |-> loads[n].fetches]
    /\ prevLoad' = [lastLoad EXCEPT !.fetches =
                        [k \in 1..Len(@) |-> [@[k] EXCEPT !.settled = 0]]]
    /\ lastReturn' = [returned |-> TRUE, value |-> TRUE, installed |-> TRUE]
    /\ beforeDisable' = NoSnapshot
    /\ lastCall' = NoCall
    /\ UNCHANGED <<isEnabled, filterCache, started, config, configReadable, remote,
                   unresponsive, probe>>
    /\ UNCHANGED trackerVars

(***************************************************************************)
(* shouldBlock, the request handler, setEnabled                            *)
(***************************************************************************)
ShouldBlockCall ==
    /\ NoneReady
    /\ lastCall' = [op |-> "shouldBlock", resourceType |-> "",
                    result |-> ShouldBlock(isEnabled, filterRules, exceptionRules, probe)]
    /\ UNCHANGED <<filterRules, exceptionRules, isEnabled, filterCache,
                   handlerInstalled, loads, started, completed, config, configReadable, remote,
                   unresponsive, probe, lastLoad, prevLoad, lastReturn, beforeDisable>>
    /\ UNCHANGED trackerVars

OnBeforeRequest(resourceType) ==
    /\ NoneReady
    /\ handlerInstalled
    /\ MatchesRequestFilter(probe)
    /\ lastCall' = [op |-> "request", resourceType |-> resourceType,
                    result |-> HandlerCancels(isEnabled, filterRules,
                                              exceptionRules, probe, resourceType),
                    callbacks |-> HandlerCallbacks(isEnabled, filterRules,
                                              exceptionRules, probe, resourceType)]
    /\ UNCHANGED <<filterRules, exceptionRules, isEnabled, filterCache,
                   handlerInstalled, loads, started, completed, config, configReadable, remote,
                   unresponsive, probe, lastLoad, prevLoad, lastReturn, beforeDisable>>
    /\ UNCHANGED trackerVars

\* A variant of setEnabled that drops the rules when it disables
SetEnabledClearsRules(enabled, filters, exceptions) ==
    [isEnabled |-> enabled,
     filterRules |-> IF enabled THEN filters ELSE <<>>,
     exceptionRules |-> IF enabled THEN exceptions ELSE <<>>]

\* What setEnabled leaves in the fields of the blocker
SetEnabledFields(enabled, filters, exceptions) ==
    [isEnabled |-> enabled, filterRules |-> filters, exceptionRules |-> exceptions]

SetEnabled(enabled) ==
    /\ NoneReady
    /\ LET after == SetEnabledFields(enabled, filterRules, exceptionRules)
       IN  /\ isEnabled' = after.isEnabled
           /\ filterRules' = after.filterRules
           /\ exceptionRules' = after.exceptionRules
    /\ beforeDisable' =
          IF isEnabled /\ ~enabled
          THEN [taken |-> TRUE,
                verdict |-> ShouldBlock(isEnabled, filterRules, exceptionRules, probe)]
          ELSE beforeDisable
    /\ lastCall' = NoCall
    /\ UNCHANGED <<filterCache, handlerInstalled, loads, started, completed,
                   config, configReadable, remote, unresponsive, probe, lastLoad, prevLoad, lastReturn>>
    /\ UNCHANGED trackerVars

(***************************************************************************)
(* adBlocker.js: the enabled flag, the counters and their persistence.     *)
(***************************************************************************)
\* The counters of a run stay within this bound: updateStats is not called
\* when the totals have reached it
MaxUpdates == 2

StatFields == {"blocked", "allowed", "totalBlocked", "totalAllowed"}

ZeroStats == [blocked |-> 0, allowed |-> 0, totalBlocked |-> 0, totalAllowed |-> 0]

\* What loadAdBlockerSettings returns without a file it can read
DefaultSettings == [enabled |-> TRUE, stats |-> ZeroStats]

\* No adblocker.json in the storage directory
NoFile == [exists |-> FALSE, enabled |-> TRUE, stats |-> ZeroStats]

NoUserSet == [taken |-> FALSE, value |-> TRUE, intact |-> FALSE]

\* The values of blocker: null, an engine without a getStats method, an
\* engine whose getStats returns its counters
BlockerNull == "null"
BlockerPlain == "plain"
BlockerReporting == "reporting"
BlockerKinds == {BlockerPlain, BlockerReporting}

\* The session of the partition persist:browser, which is the default
\* session and the session of every window that is not incognito, and the
\* session of an incognito window
DefaultSession == "persist:browser"
IncognitoSession == "incognito-1"
Sessions == {DefaultSession, IncognitoSession}

\* storageHelper.loadAdBlockerSettings(): the parsed file, or the defaults
\* when there is no file or reading or parsing it throws
LoadAdBlockerSettings(file, readOk) ==
    IF file.exists /\ readOk
    THEN [enabled |-> file.enabled, stats |-> file.stats]
    ELSE DefaultSettings

\* A variant of saveSettings that writes the flag as true
SavedSettingsFlagLost(enabled, counters) ==
    [exists |-> TRUE, enabled |-> TRUE, stats |-> counters]

\* saveSettings(): the object handed to saveAdBlockerSettings, as the file
SavedSettings(enabled, counters) ==
    [exists |-> TRUE, enabled |-> enabled, stats |-> counters]

\* storageHelper.saveAdBlockerSettings(settings): a write that throws is
\* caught and leaves the file as it was
SaveAdBlockerSettings(file, settings, writeOk) ==
    IF writeOk THEN settings ELSE file

\* loadSavedSettings(): the flag and the counters it assigns.  The spread
\* takes each field from saved.stats where it has one, then zeroes the two
\* session counters.
LoadSavedSettings(counters, saved) ==
    [isEnabled |-> saved.enabled # FALSE,
     stats |-> [f \in StatFields |->
                   IF f \in {"blocked", "allowed"} THEN 0
                   ELSE IF f \in DOMAIN saved.stats THEN saved.stats[f]
                   ELSE counters[f]]]

\* updateStats(wasBlocked): the counters after the call
UpdateStatsRecord(counters, wasBlocked) ==
    IF wasBlocked
    THEN [counters EXCEPT !.blocked = @ + 1, !.totalBlocked = @ + 1]
    ELSE [counters EXCEPT !.allowed = @ + 1, !.totalAllowed = @ + 1]

\* No timer of updateStats is pending and updateStats.timeout is not set
NoTimer == [handle |-> FALSE, pending |-> 0]

\* A variant of the end of updateStats that sets a timer on every call
DebounceEveryCall(timer) == [handle |-> TRUE, pending |-> timer.pending + 1]

\* The end of updateStats: a timer is set when updateStats.timeout holds none
Debounce(timer) ==
    IF timer.handle THEN timer
    ELSE [handle |-> TRUE, pending |-> timer.pending + 1]

TrackerCall(op, result) == [op |-> op, resourceType |-> "", result |-> result]

\* updateStats(wasBlocked); it starts the save timer when none is pending
UpdateStats(wasBlocked) ==
    /\ stats.totalBlocked + stats.totalAllowed < MaxUpdates
    /\ stats' = UpdateStatsRecord(stats, wasBlocked)
    /\ saveTimer' = Debounce(saveTimer)
    /\ lastCall' = TrackerCall("updateStats", wasBlocked)
    /\ UNCHANGED <<adBlockerEnabled, lastBlockerStats, settingsFile, userSet>>
    /\ UNCHANGED sessionVars
    /\ UNCHANGED blockerVars

\* The callback of the timer updateStats has set: saveSettings()
SaveTimerFires(writeOk) ==
    /\ saveTimer.pending > 0
    /\ settingsFile' = SaveAdBlockerSettings(settingsFile,
                          SavedSettings(adBlockerEnabled, stats), writeOk)
    /\ saveTimer' = [handle |-> FALSE, pending |-> saveTimer.pending - 1]
    /\ userSet' = [userSet EXCEPT !.intact = @ /\ writeOk]
    /\ lastCall' = TrackerCall("saveTimer", writeOk)
    /\ UNCHANGED <<adBlockerEnabled, stats, lastBlockerStats>>
    /\ UNCHANGED sessionVars
    /\ UNCHANGED blockerVars

\* saveStats(): saveSettings(), and the pending timer is cleared
SaveStats(writeOk) ==
    /\ settingsFile' = SaveAdBlockerSettings(settingsFile,
                          SavedSettings(adBlockerEnabled, stats), writeOk)
    /\ saveTimer' = IF saveTimer.handle
                    THEN [handle |-> FALSE, pending |-> saveTimer.pending - 1]
                    ELSE saveTimer
    /\ userSet' = [userSet EXCEPT !.intact = @ /\ writeOk]
    /\ lastCall' = TrackerCall("saveStats", writeOk)
    /\ UNCHANGED <<adBlockerEnabled, stats, lastBlockerStats>>
    /\ UNCHANGED sessionVars
    /\ UNCHANGED blockerVars

\* blocker.enableBlockingInSession(session) and
\* blocker.disableBlockingInSession(session): the sessions with blocking
\* enabled afterwards.  Both act on the session they are given.
EnableBlockingInSession(sessions, session) == sessions \cup {session}
DisableBlockingInSession(sessions, session) == sessions \ {session}

\* The try block of setAdBlockerEnabled, for a blocker that is not null
ToggleBlocking(sessions, session, enabled) ==
    IF enabled THEN EnableBlockingInSession(sessions, session)
    ELSE DisableBlockingInSession(sessions, session)

\* setAdBlockerEnabled(session, enabled): the flag is set and saved, then
\* blocking is switched in the session given, unless blocker is null
SetAdBlockerEnabled(session, enabled, writeOk) ==
    /\ adBlockerEnabled' = enabled
    /\ settingsFile' = SaveAdBlockerSettings(settingsFile,
                          SavedSettings(enabled, stats), writeOk)
    /\ blockingIn' = IF blocker = BlockerNull THEN blockingIn
                     ELSE ToggleBlocking(blockingIn, session, enabled)
    /\ userSet' = [taken |-> TRUE, value |-> enabled, intact |-> writeOk]
    /\ lastCall' = [op |-> "setAdBlockerEnabled", resourceType |-> "",
                    result |-> writeOk, session |-> session, enabled |-> enabled]
    /\ UNCHANGED <<stats, lastBlockerStats, saveTimer>>
    /\ UNCHANGED <<blocker, initPending, appliedEarly, blockerStats>>
    /\ UNCHANGED blockerVars

\* applyAdBlockerToSession(session): nothing while blocker is null or the
\* flag is off, else blocking is enabled in the session
ApplyAdBlockerToSession(session) ==
    /\ IF blocker = BlockerNull \/ ~adBlockerEnabled
       THEN /\ UNCHANGED blockingIn
            /\ appliedEarly' = IF blocker = BlockerNull /\ adBlockerEnabled
                               THEN appliedEarly \cup {session}
                               ELSE appliedEarly
       ELSE /\ blockingIn' = EnableBlockingInSession(blockingIn, session)
            /\ UNCHANGED appliedEarly
    /\ lastCall' = TrackerCall("applyAdBlockerToSession", session)
    /\ UNCHANGED <<adBlockerEnabled, stats, lastBlockerStats, saveTimer,
                   settingsFile, userSet, blocker, initPending, blockerStats>>
    /\ UNCHANGED blockerVars

\* initializeAdBlocker(defaultSession), up to its await: loadSavedSettings()
\* and the first lastBlockerStats.  The application calls it once, when it
\* is ready.
InitializeAdBlocker(readOk) ==
    /\ blocker = BlockerNull
    /\ ~initPending
    /\ initPending' = TRUE
    /\ LET loaded == LoadSavedSettings(stats,
                        LoadAdBlockerSettings(settingsFile, readOk))
       IN  /\ adBlockerEnabled' = loaded.isEnabled
           /\ stats' = loaded.stats
           /\ lastBlockerStats' =
                 IF loaded.stats.totalBlocked > 0 \/ loaded.stats.totalAllowed > 0
                 THEN [blocked |-> loaded.stats.blocked,
                       allowed |-> loaded.stats.allowed]
                 ELSE lastBlockerStats
    /\ userSet' = [userSet EXCEPT !.intact = @ /\ readOk]
    /\ lastCall' = TrackerCall("initializeAdBlocker", readOk)
    /\ UNCHANGED <<saveTimer, settingsFile>>
    /\ UNCHANGED <<blocker, blockingIn, appliedEarly, blockerStats>>
    /\ UNCHANGED blockerVars

\* initializeAdBlocker after its await, on the try path or the catch path:
\* blocker is assigned (the engine, or the empty engine) and blocking is
\* enabled in the default session when the flag is set.  kind tells whether
\* the object has a getStats method.
InitializeDone(kind) ==
    /\ initPending
    /\ initPending' = FALSE
    /\ blocker' = kind
    /\ blockingIn' = IF adBlockerEnabled
                     THEN EnableBlockingInSession(blockingIn, DefaultSession)
                     ELSE blockingIn
    /\ lastCall' = TrackerCall("initializeDone", adBlockerEnabled)
    /\ UNCHANGED <<adBlockerEnabled, stats, lastBlockerStats, saveTimer,
                   settingsFile, userSet, appliedEarly, blockerStats>>
    /\ UNCHANGED blockerVars

\* The blocker counts a request it has blocked or allowed
BlockerCounts(wasBlocked) ==
    /\ blocker = BlockerReporting
    /\ blockerStats.blocked + blockerStats.allowed < MaxUpdates
    /\ blockerStats' = IF wasBlocked
                       THEN [blockerStats EXCEPT !.blocked = @ + 1]
                       ELSE [blockerStats EXCEPT !.allowed = @ + 1]
    /\ lastCall' = TrackerCall("blockerCounts", wasBlocked)
    /\ UNCHANGED <<adBlockerEnabled, stats, lastBlockerStats, saveTimer,
                   settingsFile, userSet, blocker, initPending, blockingIn,
                   appliedEarly>>
    /\ UNCHANGED blockerVars

\* syncStatsFromBlocker(blockerStats): the counters after the call
SyncedStats(counters, last, current) ==
    [blocked |-> current.blocked,
     allowed |-> current.allowed,
     totalBlocked |-> counters.totalBlocked
                      + (IF current.blocked > last.blocked
                         THEN current.blocked - last.blocked ELSE 0),
     totalAllowed |-> counters.totalAllowed
                      + (IF current.allowed > last.allowed
                         THEN current.allowed - last.allowed ELSE 0)]

\* The callback of the 5 s interval: syncStatsFromBlocker(blocker.getStats())
SyncStatsFromBlocker ==
    /\ blocker = BlockerReporting
    /\ stats' = SyncedStats(stats, lastBlockerStats, blockerStats)
    /\ lastBlockerStats' = blockerStats
    /\ lastCall' = TrackerCall("syncStatsFromBlocker", TRUE)
    /\ UNCHANGED <<adBlockerEnabled, saveTimer, settingsFile, userSet>>
    /\ UNCHANGED sessionVars
    /\ UNCHANGED blockerVars

\* getAdBlockerStats(): the object it returns
AdBlockerStats(counters, kind, current) ==
    [blocked |-> IF kind = BlockerReporting
                 THEN current.blocked + counters.blocked ELSE counters.blocked,
     allowed |-> IF kind = BlockerReporting
                 THEN current.allowed + counters.allowed ELSE counters.allowed,
     totalBlocked |-> counters.totalBlocked,
     totalAllowed |-> counters.totalAllowed]

GetAdBlockerStats ==
    /\ lastCall' = TrackerCall("getAdBlockerStats",
                               AdBlockerStats(stats, blocker, blockerStats))
    /\ UNCHANGED trackerVars
    /\ UNCHANGED blockerVars

\* The process ends and a new one loads the module: the module's variables
\* get their initial values, then loadSavedSettings() runs
Restart(readOk) ==
    /\ LET loaded == LoadSavedSettings(ZeroStats,
                        LoadAdBlockerSettings(settingsFile, readOk))
       IN  /\ adBlockerEnabled' = loaded.isEnabled
           /\ stats' = loaded.stats
    /\ lastBlockerStats' = [blocked |-> 0, allowed |-> 0]
    /\ saveTimer' = NoTimer
    /\ userSet' = NoUserSet
    /\ blocker' = BlockerNull
    /\ initPending' = FALSE
    /\ blockingIn' = {}
    /\ appliedEarly' = {}
    /\ blockerStats' = [blocked |-> 0, allowed |-> 0]
    /\ lastCall' = TrackerCall("restart", readOk)
    /\ UNCHANGED settingsFile
    /\ UNCHANGED blockerVars

\* The module adBlocker.js, loaded by a first run without a settings file
ModuleLoaded ==
    /\ adBlockerEnabled = TRUE
    /\ stats = ZeroStats
    /\ lastBlockerStats = [blocked |-> 0, allowed |-> 0]
    /\ saveTimer = NoTimer
    /\ settingsFile = NoFile
    /\ userSet = NoUserSet
    /\ blocker = BlockerNull
    /\ initPending = FALSE
    /\ blockingIn = {}
    /\ appliedEarly = {}
    /\ blockerStats = [blocked |-> 0, allowed |-> 0]

(***************************************************************************)
(* The specifications.                                                     *)
(***************************************************************************)
\* The state after new AdBlocker(session)
Constructed ==
    /\ filterRules = <<>>
    /\ exceptionRules = <<>>
    /\ isEnabled = TRUE
    /\ filterCache = <<>>
    /\ handlerInstalled = FALSE
    /\ loads = <<>>
    /\ started = 0
    /\ completed = 0
    /\ lastCall = NoCall
    /\ lastLoad = NoLoad
    /\ prevLoad = NoLoad
    /\ lastReturn = NoReturn
    /\ beforeDisable = NoSnapshot

\* A new blocker, the configuration of two loaded lists, and their servers
Init ==
    /\ Constructed
    /\ config = DefaultConfig
    /\ configReadable = TRUE
    /\ remote = [u \in {ListUrlA, ListUrlB, ListUrlC} |->
                    IF u = ListUrlA THEN TextAds ELSE TextPrivacy]
    /\ unresponsive \in {{}, {ListUrlB}}
    /\ probe \in LoaderProbeUrls
    /\ ModuleLoaded

Next ==
    \/ StartLoad
    \/ \E n \in 1..Len(loads) : \E k \in 1..Len(loads[n].fetches) : FetchOk(n, k)
    \/ \E n \in 1..Len(loads) : \E k \in 1..Len(loads[n].fetches) : FetchFail(n, k)
    \/ \E n \in 1..Len(loads) : LoadComplete(n)
    \/ ShouldBlockCall
    \/ \E t \in ResourceTypes : OnBeforeRequest(t)
    \/ \E e \in BOOLEAN : SetEnabled(e)

Spec == Init /\ [][Next]_vars

\* The scheduling of the event loop: a server that answers is heard, and the
\* continuation of a settled Promise.all runs
Fairness ==
    /\ WF_vars(\E n \in 1..Len(loads) : \E k \in 1..Len(loads[n].fetches) :
                  FetchOk(n, k) \/ FetchFail(n, k))
    /\ WF_vars(\E n \in 1..Len(loads) : LoadComplete(n))

FairSpec == Init /\ [][Next]_vars /\ Fairness

\* The blocker after a first load of the single list of SingleConfig, whose
\* text is drawn from Texts, and the URL the run asks about.  Requests do not
\* change the blocker, so one URL for each run reaches every pair of a
\* blocker state and a request.
ParseInit ==
    /\ config = SingleConfig
    /\ configReadable = TRUE
    /\ remote \in [{ListUrlA} -> Texts]
    /\ unresponsive = {}
    /\ probe \in ProbeUrls
    /\ filterCache = remote
    /\ LET first == <<StartFetch(remote, ListUrlA)>>
       IN  /\ filterRules = BuildRuleSet(first).filterRules
           /\ exceptionRules = BuildRuleSet(first).exceptionRules
           /\ lastLoad = [returned |-> TRUE, call |-> 0, fetches |-> first]
    /\ prevLoad = NoLoad
    /\ lastReturn = [returned |-> TRUE, value |-> TRUE, installed |-> TRUE]
    /\ isEnabled = TRUE
    /\ handlerInstalled = TRUE
    /\ loads = <<>>
    /\ started = 0
    /\ completed = 0
    /\ lastCall = NoCall
    /\ beforeDisable = NoSnapshot
    /\ ModuleLoaded

\* With every list cached no request is sent: a reload parses the cache
ParseNext ==
    \/ StartLoad
    \/ \E n \in 1..Len(loads) : LoadComplete(n)
    \/ ShouldBlockCall
    \/ \E t \in ResourceTypes : OnBeforeRequest(t)
    \/ \E e \in BOOLEAN : SetEnabled(e)

ParseSpec == ParseInit /\ [][ParseNext]_vars

\* The file at filterListPath is replaced, or made unreadable, between calls
RewriteConfig(lists, readable) ==
    /\ NoneReady
    /\ <<IF readable THEN lists ELSE EmptyConfig, readable>> # <<config, configReadable>>
    /\ config' = (IF readable THEN lists ELSE EmptyConfig)
    /\ configReadable' = readable
    /\ lastCall' = NoCall
    /\ UNCHANGED <<filterRules, exceptionRules, isEnabled, filterCache,
                   handlerInstalled, loads, started, completed, remote,
                   unresponsive, probe, lastLoad, prevLoad, lastReturn,
                   beforeDisable>>
    /\ UNCHANGED trackerVars

\* A new blocker and any configuration file, readable or not
ReloadInit ==
    /\ Constructed
    /\ config \in Configs
    /\ configReadable \in BOOLEAN
    /\ ~configReadable => config = EmptyConfig
    /\ remote = [u \in {ListUrlA, ListUrlB, ListUrlC} |->
                    IF u = ListUrlA THEN TextAds ELSE TextPrivacy]
    /\ unresponsive = {}
    /\ probe = "https://tracker.com/ads/x"
    /\ ModuleLoaded

ReloadNext ==
    \/ Next
    \/ \E lists \in Configs : \E readable \in BOOLEAN : RewriteConfig(lists, readable)

ReloadSpec == ReloadInit /\ [][ReloadNext]_vars

\* The module adBlocker.js beside a new blocker that loads nothing
TrackerInit ==
    /\ Constructed
    /\ config = DefaultConfig
    /\ configReadable = TRUE
    /\ remote = [u \in {ListUrlA, ListUrlB, ListUrlC} |->
                    IF u = ListUrlA THEN TextAds ELSE TextPrivacy]
    /\ unresponsive = {}
    /\ probe \in LoaderProbeUrls
    /\ ModuleLoaded

TrackerNext ==
    \/ \E wasBlocked \in BOOLEAN : UpdateStats(wasBlocked)
    \/ \E writeOk \in BOOLEAN : SaveTimerFires(writeOk)
    \/ \E writeOk \in BOOLEAN : SaveStats(writeOk)
    \/ \E session \in Sessions : \E enabled \in BOOLEAN : \E writeOk \in BOOLEAN :
          SetAdBlockerEnabled(session, enabled, writeOk)
    \/ \E readOk \in BOOLEAN : InitializeAdBlocker(readOk)
    \/ \E kind \in BlockerKinds : InitializeDone(kind)
    \/ \E readOk \in BOOLEAN : Restart(readOk)

TrackerSpec == TrackerInit /\ [][TrackerNext]_vars

\* The flag, the blocker and the sessions: initialisation, the toggle of a
\* window, new windows, restarts
SessionNext ==
    \/ \E readOk \in BOOLEAN : InitializeAdBlocker(readOk)
    \/ \E kind \in BlockerKinds : InitializeDone(kind)
    \/ \E session \in Sessions : \E enabled \in BOOLEAN : \E writeOk \in BOOLEAN :
          SetAdBlockerEnabled(session, enabled, writeOk)
    \/ \E session \in Sessions : ApplyAdBlockerToSession(session)
    \/ \E readOk \in BOOLEAN : Restart(readOk)

SessionSpec == TrackerInit /\ [][SessionNext]_vars

\* fromPrebuiltAdsAndTracking settles: its promise resolves or rejects
FairSessionSpec ==
    TrackerInit /\ [][SessionNext]_vars
    /\ WF_vars(\E kind \in BlockerKinds : InitializeDone(kind))

\* The counters of one process: requests counted by updateStats and by the
\* blocker, the 5 s interval, the ad-blocker-stats handler
StatsNext ==
    \/ \E readOk \in BOOLEAN : InitializeAdBlocker(readOk)
    \/ \E kind \in BlockerKinds : InitializeDone(kind)
    \/ \E wasBlocked \in BOOLEAN : UpdateStats(wasBlocked)
    \/ \E wasBlocked \in BOOLEAN : BlockerCounts(wasBlocked)
    \/ SyncStatsFromBlocker
    \/ GetAdBlockerStats

StatsSpec == TrackerInit /\ [][StatsNext]_vars

\* The saves of one process; a timer that is pending fires
SaveNext ==
    \/ \E readOk \in BOOLEAN : InitializeAdBlocker(readOk)
    \/ \E kind \in BlockerKinds : InitializeDone(kind)
    \/ \E wasBlocked \in BOOLEAN : UpdateStats(wasBlocked)
    \/ \E writeOk \in BOOLEAN : SaveTimerFires(writeOk)
    \/ \E writeOk \in BOOLEAN : SaveStats(writeOk)
    \/ \E session \in Sessions : \E enabled \in BOOLEAN : \E writeOk \in BOOLEAN :
          SetAdBlockerEnabled(session, enabled, writeOk)

SaveSpec ==
    TrackerInit /\ [][SaveNext]_vars
    /\ WF_vars(\E writeOk \in BOOLEAN : SaveTimerFires(writeOk))

(***************************************************************************)
(* The properties.                                                         *)
(***************************************************************************)
\* The host name of the URL the run asks about
ProbeHost == ParseURL(probe).hostname

\* h is p, or some text followed by "." and p
IsOrIsUnder(h, p) ==
    h = p \/ \E n \in 0..Len(h) : Slice(h, n + 1, Len(h)) = "." \o p

\* C1: exception precedence.  Whenever shouldBlock is called with a URL that
\* at least one exception rule matches, it returns false, whatever block
\* rules match the URL too.
C1_ExceptionPrecedence ==
    (lastCall.op = "shouldBlock" /\ AnyRuleMatches(exceptionRules, probe))
    => lastCall.result = FALSE

\* shouldBlock has answered false for a URL that an exception rule and a
\* block rule both match, with the blocker enabled
C1_Witness ==
    /\ lastCall.op = "shouldBlock"
    /\ isEnabled
    /\ AnyRuleMatches(exceptionRules, probe)
    /\ AnyRuleMatches(filterRules, probe)
    /\ lastCall.result = FALSE

\* C2: a request whose resourceType is mainFrame is never cancelled by the
\* handler, whatever the rules.
C2_MainFrameNeverCancelled ==
    (lastCall.op = "request" /\ lastCall.resourceType = "mainFrame")
    => lastCall.result = FALSE

\* The handler has let a main-frame request through while the blocker was
\* enabled and a domain rule's pattern was exactly the navigated host
C2_Witness ==
    /\ lastCall.op = "request"
    /\ lastCall.resourceType = "mainFrame"
    /\ lastCall.result = FALSE
    /\ isEnabled
    /\ \E k \in 1..Len(filterRules) :
          filterRules[k].type = "domain" /\ filterRules[k].pattern = ProbeHost
    /\ ShouldBlock(isEnabled, filterRules, exceptionRules, probe)

\* C3: while the blocker is disabled shouldBlock returns false and the
\* handler never cancels; once it is enabled again, with the rule set
\* unchanged, shouldBlock gives the URL the verdict it had before the blocker
\* was disabled.
C3_DisableThenRestore ==
    /\ (lastCall.op # "none" /\ ~isEnabled) => lastCall.result = FALSE
    /\ (lastCall.op = "shouldBlock" /\ isEnabled /\ beforeDisable.taken)
          => lastCall.result = beforeDisable.verdict

\* The blocker was disabled and enabled again, and shouldBlock blocks again
\* the URL it blocked before
C3_Witness ==
    /\ lastCall.op = "shouldBlock"
    /\ isEnabled
    /\ beforeDisable.taken
    /\ beforeDisable.verdict = TRUE
    /\ lastCall.result = TRUE

\* C4: with the blocker enabled and no exception matching, a subresource
\* request is cancelled when its host is the pattern P of a domain rule or
\* ends with "." + P; and when no rule of another type matches, it is
\* cancelled only then: a host that holds P elsewhere is not matched.
C4_DomainRuleHost ==
    (lastCall.op = "request" /\ lastCall.resourceType # "mainFrame" /\ isEnabled
        /\ ~AnyRuleMatches(exceptionRules, probe))
    => /\ (\E k \in 1..Len(filterRules) :
              /\ filterRules[k].type = "domain"
              /\ IsOrIsUnder(ProbeHost, filterRules[k].pattern))
          => lastCall.result = TRUE
       /\ (/\ lastCall.result = TRUE
           /\ \A k \in 1..Len(filterRules) :
                 filterRules[k].type # "domain"
                    => ~RuleMatches(filterRules[k], ProbeHost, probe))
          => \E k \in 1..Len(filterRules) :
                /\ filterRules[k].type = "domain"
                /\ IsOrIsUnder(ProbeHost, filterRules[k].pattern)

\* A subresource request to a subdomain of a domain rule's pattern has been
\* cancelled
C4_Witness ==
    /\ lastCall.op = "request"
    /\ lastCall.resourceType = "script"
    /\ lastCall.result = TRUE
    /\ \E k \in 1..Len(filterRules) :
          /\ filterRules[k].type = "domain"
          /\ ProbeHost # filterRules[k].pattern
          /\ EndsWith(ProbeHost, "." \o filterRules[k].pattern)

\* C5: with the lines ||tracker.com^ and @@||tracker.com/allowed^ loaded, a
\* subresource request to a URL on host tracker.com whose path starts with
\* /allowed is not cancelled.
C5_PathExceptionOverridesDomainBlock ==
    (/\ ListUrlA \in DOMAIN filterCache
     /\ filterCache[ListUrlA] = TextDomain
     /\ lastLoad.returned
     /\ probe = "https://tracker.com/allowed/x"
     /\ isEnabled
     /\ lastCall.op = "request"
     /\ lastCall.resourceType = "script")
    => lastCall.result = FALSE

\* A rule's pattern is a non-empty text, or a compiled expression with a
\* non-empty source
PatternNonEmpty(rule) ==
    IF rule.type = "regex"
    THEN rule.pattern # Null /\ rule.pattern.source # ""
    ELSE rule.pattern # ""

\* C6: in every reachable state, every rule of filterRules and of
\* exceptionRules has a non-empty pattern.
C6_PatternsNeverEmpty ==
    /\ \A k \in 1..Len(filterRules) : PatternNonEmpty(filterRules[k])
    /\ \A k \in 1..Len(exceptionRules) : PatternNonEmpty(exceptionRules[k])

RuleTypes == {"domain", "start", "end", "regex", "substring"}

\* What parseFilterList hands back: rule records, none of them null
WellFormedRules(rules) ==
    \A k \in 1..Len(rules) :
        /\ rules[k] # Null
        /\ DOMAIN rules[k] = {"type", "pattern", "rule"}
        /\ rules[k].type \in RuleTypes

\* C7: parsing returns normally for every text and a malformed line only
\* drops that line: the six lines "", "!", "   ", "@@", "$script" and a line
\* of 5000 characters yield no block rule and no exception rule, and among
\* valid lines they leave exactly the rules of the valid lines, in order.
C7_MalformedLinesSkipped ==
    lastLoad.returned =>
        /\ WellFormedRules(filterRules)
        /\ WellFormedRules(exceptionRules)
        /\ (ListUrlA \in DOMAIN filterCache /\ config = SingleConfig) =>
              /\ filterCache[ListUrlA] = TextMalformed
                    => filterRules = <<>> /\ exceptionRules = <<>>
              /\ filterCache[ListUrlA] = TextMalformedAmongValid
                    => /\ filterRules =
                            << [type |-> "substring", pattern |-> "/ads/",
                                rule |-> "/ads/"],
                               [type |-> "domain", pattern |-> "tracker.com",
                                rule |-> "||tracker.com^"] >>
                       /\ exceptionRules =
                            << [type |-> "substring", pattern |-> "/ads/ok",
                                rule |-> "/ads/ok"] >>

\* A load has parsed the six malformed lines and has installed no rule
C7_Witness ==
    /\ completed >= 1
    /\ lastLoad.returned
    /\ filterCache[ListUrlA] = TextMalformed
    /\ filterRules = <<>>
    /\ exceptionRules = <<>>

\* The rule set the call that returned last has built, the empty one before
\* any call has returned
CurrentRuleSet ==
    IF lastLoad.returned THEN BuildRuleSet(lastLoad.fetches) ELSE EmptyRuleSet

\* C8: at every moment, also while a load is in progress, filterRules and
\* exceptionRules are the two halves of one rule set, the one built by the
\* call that returned last, and a request is decided on that pair.
C8_RuleSetSwappedWhole ==
    /\ filterRules = CurrentRuleSet.filterRules
    /\ exceptionRules = CurrentRuleSet.exceptionRules
    /\ lastCall.op = "request" =>
          lastCall.result = HandlerCancels(isEnabled, CurrentRuleSet.filterRules,
                                           CurrentRuleSet.exceptionRules, probe,
                                           lastCall.resourceType)

\* A request has been decided on the rules of a first load while a second
\* load was waiting for a fetch
C8_Witness ==
    /\ lastCall.op = "request"
    /\ lastLoad.returned
    /\ filterRules # <<>>
    /\ exceptionRules # <<>>
    /\ \E n \in 1..Len(loads) : ~Ready(loads[n])

IsOk(fetch) == fetch.status = "ok"

\* C9: when the fetch of a source fails, the load still returns; the rule
\* set holds the rules parsed from the texts of the other sources, in order,
\* and nothing from the failed one.
C9_FailedSourceContributesNothing ==
    lastLoad.returned =>
        LET others == SelectSeq(lastLoad.fetches, IsOk)
        IN  /\ \A k \in 1..Len(others) : others[k].data = remote[others[k].url]
            /\ filterRules =
                  Flatten([k \in 1..Len(others) |-> ParseFilterList(others[k].data).rules])
            /\ exceptionRules =
                  Flatten([k \in 1..Len(others) |->
                              ParseFilterList(others[k].data).exceptions])

\* A load has returned with one source failed and has installed the rules of
\* the other
C9_Witness ==
    /\ lastLoad.returned
    /\ \E k \in 1..Len(lastLoad.fetches) : lastLoad.fetches[k].status = "failed"
    /\ \E k \in 1..Len(lastLoad.fetches) : lastLoad.fetches[k].status = "ok"
    /\ filterRules # <<>>

\* C10: a source that never answers does not keep the load from returning:
\* a call of loadFilterLists eventually returns.
C10_LoadReturnsDespiteSilentSource ==
    (started >= 1) ~> (completed >= 1)

\* Every fetch of a call failed; so it is when the call had no URL to load
AllFailed(fetches) ==
    \A k \in 1..Len(fetches) : fetches[k].status = "failed"

NoRules == filterRules = <<>> /\ exceptionRules = <<>>

\* C11, as stated: when the configuration cannot be read, lists no usable
\* source, or every source fails, loadFilterLists returns and the rule set is
\* empty, so that shouldBlock returns false.
C11_FailedLoadLeavesNoRules ==
    (lastReturn.returned /\ (~lastReturn.installed \/ AllFailed(lastLoad.fetches)))
    => /\ NoRules
       /\ lastCall.op = "shouldBlock" => lastCall.result = FALSE

\* C11, amended: loadFilterLists returns in the three cases.  A call that
\* found no usable source, or whose sources all failed, returns true and
\* leaves both rule lists empty, so that shouldBlock returns false.  A call
\* that could not read the configuration returns false and leaves the rule
\* lists as they were: empty on a blocker that has installed nothing, the
\* rules of the last installing call otherwise.
C11_FailedLoadFallsBack ==
    lastReturn.returned =>
        /\ (lastReturn.installed /\ AllFailed(lastLoad.fetches)) =>
              /\ lastReturn.value = TRUE
              /\ NoRules
              /\ lastCall.op = "shouldBlock" => lastCall.result = FALSE
        /\ ~lastReturn.installed =>
              /\ lastReturn.value = FALSE
              /\ filterRules = CurrentRuleSet.filterRules
              /\ exceptionRules = CurrentRuleSet.exceptionRules
              /\ ~lastLoad.returned =>
                    /\ NoRules
                    /\ lastCall.op = "shouldBlock" => lastCall.result = FALSE

\* shouldBlock has answered false on an enabled blocker after a call whose
\* two sources both failed
C11_Witness ==
    /\ lastReturn.returned
    /\ lastReturn.installed
    /\ Len(lastLoad.fetches) = 2
    /\ AllFailed(lastLoad.fetches)
    /\ isEnabled
    /\ lastCall.op = "shouldBlock"
    /\ lastCall.result = FALSE

\* The two calls that installed rules last loaded the same URLs, in order
SameSources ==
    /\ lastLoad.returned
    /\ prevLoad.returned
    /\ Len(lastLoad.fetches) = Len(prevLoad.fetches)
    /\ \A k \in 1..Len(lastLoad.fetches) :
          lastLoad.fetches[k].url = prevLoad.fetches[k].url

\* Each source had the same outcome in both calls: answered, from its server
\* or from the cache, or failed
SameOutcomes ==
    \A k \in 1..Len(lastLoad.fetches) :
        lastLoad.fetches[k].status = prevLoad.fetches[k].status

\* The rule set is the one the call before the last one installed
SameRuleSetAsBefore ==
    /\ filterRules = BuildRuleSet(prevLoad.fetches).filterRules
    /\ exceptionRules = BuildRuleSet(prevLoad.fetches).exceptionRules

\* C12, as stated: two loads of identical, unchanged sources install equal
\* rule sets: the same block rules and the same exception rules, in order.
C12_ReloadInstallsEqualRules ==
    SameSources => SameRuleSetAsBefore

\* C12, amended: two loads of identical, unchanged sources in which each
\* source has the same outcome (it answers, from its server or from the
\* cache, in both, or fails in both) install equal rule sets.
C12_ReloadWithSameOutcomesInstallsEqualRules ==
    (SameSources /\ SameOutcomes) => SameRuleSetAsBefore

\* Two loads in which both sources answered have installed the same rules
C12_Witness ==
    /\ SameSources
    /\ Len(lastLoad.fetches) = 2
    /\ \A k \in 1..2 : lastLoad.fetches[k].status = "ok"
                       /\ prevLoad.fetches[k].status = "ok"
    /\ filterRules # <<>>
    /\ SameRuleSetAsBefore

\* The step settles a pending fetch as failed
SomeFetchFails ==
    \E n \in 1..Len(loads) : \E k \in 1..Len(loads[n].fetches) :
        /\ loads[n].fetches[k].status = "pending"
        /\ Len(loads') >= n
        /\ Len(loads'[n].fetches) >= k
        /\ loads'[n].fetches[k].status = "failed"

\* C13: no step discards or changes cached text.  A URL in filterCache stays
\* in it, its text is the one its server answered with, and a step in which
\* a fetch fails leaves filterCache as it was.
C13_FailedFetchKeepsCache ==
    [][/\ \A u \in DOMAIN filterCache :
             /\ u \in DOMAIN filterCache'
             /\ filterCache'[u] = filterCache[u]
             /\ filterCache'[u] = remote'[u]
       /\ SomeFetchFails => filterCache' = filterCache]_vars

\* A fetch of a URL has failed while the text of an earlier fetch of that URL
\* is cached
C13_Witness ==
    \E n \in 1..Len(loads) : \E k \in 1..Len(loads[n].fetches) :
        /\ loads[n].fetches[k].status = "failed"
        /\ loads[n].fetches[k].url \in DOMAIN filterCache
        /\ filterCache[loads[n].fetches[k].url] = remote[loads[n].fetches[k].url]

\* C14: every decision of the request handler is reported to the statistics
\* exactly once: a step in which the handler decides a request is one
\* updateStats call with wasBlocked equal to the verdict.
C14_DecisionReportedOnce ==
    [][lastCall'.op = "request"
          => stats' = UpdateStatsRecord(stats, lastCall'.result)]_vars

\* C15: the reset of the session counters at the start of
\* initializeAdBlocker, with the settings file read without error, sets
\* blocked and allowed to 0 and leaves totalBlocked and totalAllowed at the
\* values they had in memory just before.
C15_ResetKeepsTotals ==
    [][(lastCall'.op = "initializeAdBlocker" /\ lastCall'.result)
          => /\ stats'.blocked = 0
             /\ stats'.allowed = 0
             /\ stats'.totalBlocked = stats.totalBlocked
             /\ stats'.totalAllowed = stats.totalAllowed]_vars

\* C16: the enabled flag survives a restart.  After setAdBlockerEnabled(s, e)
\* with the settings file written and read without error from then on, the
\* process that starts next loads the flag e.
C16_EnabledFlagSurvivesRestart ==
    [][(lastCall'.op = "restart" /\ lastCall'.result
           /\ userSet.taken /\ userSet.intact)
          => adBlockerEnabled' = userSet.value]_vars

\* A process has started from a settings file that holds the flag false
C16_Witness ==
    /\ lastCall.op = "restart"
    /\ lastCall.result
    /\ settingsFile.exists
    /\ adBlockerEnabled = FALSE

\* Some substring rule of the list has a pattern that occurs in the string
SubstringOccurs(rules, url) ==
    \E k \in 1..Len(rules) :
        rules[k].type = "substring" /\ Includes(url, rules[k].pattern)

BetweenBarsAndSeparator(r) ==
    LET bars == {i \in 1..(Len(r) - 1) : Slice(r, i, i + 1) = "||"}
        first == CHOOSE i \in bars : \A j \in bars : i <= j
        rest == Slice(r, first + 2, Len(r))
        sep == IndexOf(rest, "^")
    IN  IF bars = {} THEN r
        ELSE IF sep = 0 THEN rest ELSE Slice(rest, 1, sep - 1)

\* C18: after a load, the pattern of every domain rule is the text between the || of its
\* line and the first ^ that follows: neither text before the || nor the ||
\* is part of it.
C18_DomainPatternBetweenBarsAndSeparator ==
    completed >= 1 =>
    /\ \A k \in 1..Len(filterRules) :
          filterRules[k].type = "domain" =>
             filterRules[k].pattern = BetweenBarsAndSeparator(filterRules[k].rule)
    /\ \A k \in 1..Len(exceptionRules) :
          exceptionRules[k].type = "domain" =>
             exceptionRules[k].pattern = BetweenBarsAndSeparator(exceptionRules[k].rule)

\* A line without the text after its last $, when that text is not empty
BeforeLastDollar(line) ==
    IF LastIndexOf(line, "$") # 0 /\ LastIndexOf(line, "$") < Len(line)
    THEN Slice(line, 1, LastIndexOf(line, "$") - 1)
    ELSE line

\* The lines of the text cached for the list of SingleConfig, trimmed
CachedLines ==
    LET lines == Split(filterCache[ListUrlA], "\n")
    IN  {Trim(lines[k]) : k \in 1..Len(lines)}

\* C19: the options suffix removed from a rule is the text after its last $:
\* after a load, the text of every block rule is a line of the list without what follows
\* the last $ of that line.
C19_OptionsCutAtLastDollar ==
    (completed >= 1 /\ config = SingleConfig /\ ListUrlA \in DOMAIN filterCache)
    => \A k \in 1..Len(filterRules) :
          \E line \in CachedLines : filterRules[k].rule = BeforeLastDollar(line)

\* C20: a line whose trimmed text begins with !, # or [ produces no rule:
\* after a load, no block rule has a text that begins with one of them.
C20_CommentAndMetadataLinesSkipped ==
    completed >= 1 =>
    \A k \in 1..Len(filterRules) :
        CharAt(filterRules[k].rule, 1) \notin {"!", "#", "["}

\* Whether a length is within the limits parseFilterList accepts
WithinLimits(n) == MinRuleLen <= n /\ n <= MaxRuleLen

\* C21: no rule comes from a line whose trimmed length is outside [3, 2048],
\* and an exception rule comes only from an @@ line whose text after the
\* prefix is within [3, 2048] as well: after a load, every block rule and
\* every exception rule is the rule of a line of the list within the limits.
C21_RulesComeFromLinesWithinLimits ==
    (completed >= 1 /\ config = SingleConfig /\ ListUrlA \in DOMAIN filterCache)
    => /\ \A k \in 1..Len(filterRules) :
             \E line \in CachedLines :
                 /\ WithinLimits(Len(line))
                 /\ filterRules[k].rule = RuleWithoutOptions(line)
       /\ \A k \in 1..Len(exceptionRules) :
             \E line \in CachedLines :
                 /\ WithinLimits(Len(line))
                 /\ StartsWith(line, "@@")
                 /\ WithinLimits(Len(Trim(Slice(line, 3, Len(line)))))
                 /\ exceptionRules[k].rule =
                        RuleWithoutOptions(Trim(Slice(line, 3, Len(line))))

\* The characters a ^ of a rule stands for: not alphanumeric and none of . _ % -
IsSeparatorChar(c) ==
    /\ c # ""
    /\ \A k \in 1..Len(LowerLetters) : LowerChar(c) # CharAt(LowerLetters, k)
    /\ c \notin Digits
    /\ c \notin {".", "_", "%", "-"}

\* Whether a rule text occurs in url with each ^ standing for a separator
\* character and every other character for itself, letters without case
OccursWithSeparators(text, url) ==
    \E i \in 1..Len(url) :
        \A k \in 1..Len(text) :
            IF CharAt(text, k) = "^"
            THEN IsSeparatorChar(CharAt(url, i + k - 1))
            ELSE /\ i + k - 1 <= Len(url)
                 /\ LowerChar(CharAt(url, i + k - 1)) = LowerChar(CharAt(text, k))

\* C22: in a separator rule each ^ matches URL characters that are not
\* alphanumeric and none of . _ % -, and the rest of the text matches itself
\* without case: with the rule /ads^ alone in the list, shouldBlock answers
\* true for a URL that holds /ads/ or /ADS? and false for one that holds
\* /adsx only.
C22_SeparatorRuleMatchesSeparators ==
    (/\ completed >= 1
     /\ lastCall.op = "shouldBlock"
     /\ isEnabled
     /\ ParseURL(probe).ok
     /\ exceptionRules = <<>>
     /\ Len(filterRules) = 1
     /\ filterRules[1].type = "regex")
    => (lastCall.result <=> OccursWithSeparators(filterRules[1].rule, probe))

\* Whether a rule list holds a regex rule without a compiled expression
HoldsNullRegex(rules) ==
    \E k \in 1..Len(rules) : rules[k].type = "regex" /\ rules[k].pattern = Null

\* C23: a separator line whose regular expression does not compile is
\* rejected: after a load, neither filterRules nor exceptionRules holds a
\* rule of type regex whose pattern is null.
C23_UncompilableSeparatorRuleRejected ==
    completed >= 1 =>
        ~HoldsNullRegex(filterRules) /\ ~HoldsNullRegex(exceptionRules)

\* C24: when a second loadFilterLists call starts while a first is waiting
\* for its fetches, then once both have completed the active rule set is
\* the one built by the call that started last, also when the call that
\* started first is the one that completed last.
C24_LastStartedCallWins ==
    (/\ loads = <<>>
     /\ lastLoad.returned
     /\ prevLoad.returned
     /\ prevLoad.call = started
     /\ lastLoad.call < prevLoad.call)
    => /\ filterRules = BuildRuleSet(prevLoad.fetches).filterRules
       /\ exceptionRules = BuildRuleSet(prevLoad.fetches).exceptionRules

\* The rules of the lines of TextAds and of TextPrivacy, in the order of
\* the lines
AdsRules ==
    << [type |-> "domain", pattern |-> "tracker.com", rule |-> "||tracker.com^"] >>
AdsExceptions ==
    << [type |-> "domain", pattern |-> "cdn.tracker.com",
        rule |-> "||cdn.tracker.com^"] >>
PrivacyRules ==
    << [type |-> "substring", pattern |-> "/ads/", rule |-> "/ads/"],
       [type |-> "domain", pattern |-> "", rule |-> "||^"] >>
PrivacyExceptions ==
    << [type |-> "substring", pattern |-> "/ads/ok", rule |-> "/ads/ok"] >>

\* C25: the rules are in the order of the sources in the configuration and,
\* inside a source, in the order of its lines, whatever the order in which
\* the fetches settle: after a load of the two lists, the rules of the first
\* list (when its fetch succeeded) come before the rules of the second.
C25_RulesInConfigurationOrder ==
    (lastLoad.returned /\ Len(lastLoad.fetches) = 2)
    => /\ lastLoad.fetches[1].url = ListUrlA
       /\ lastLoad.fetches[2].url = ListUrlB
       /\ filterRules =
             (IF lastLoad.fetches[1].status = "ok" THEN AdsRules ELSE <<>>)
             \o (IF lastLoad.fetches[2].status = "ok" THEN PrivacyRules ELSE <<>>)
       /\ exceptionRules =
             (IF lastLoad.fetches[1].status = "ok" THEN AdsExceptions ELSE <<>>)
             \o (IF lastLoad.fetches[2].status = "ok" THEN PrivacyExceptions ELSE <<>>)

\* A load has installed the rules of both lists, the second list's fetch
\* having settled before the first list's
C25_Witness ==
    /\ lastLoad.returned
    /\ Len(lastLoad.fetches) = 2
    /\ \A k \in 1..2 : lastLoad.fetches[k].status = "ok"
    /\ lastLoad.fetches[2].settled = 1
    /\ lastLoad.fetches[1].settled = 2
    /\ filterRules = AdsRules \o PrivacyRules
    /\ exceptionRules = AdsExceptions \o PrivacyExceptions

\* C26: for every request delivered to the handler the callback is invoked
\* exactly once, on every path, and its argument carries cancel: true only
\* (and whenever) the blocker is enabled, the request is not a main frame
\* and shouldBlock answers true for the URL.
C26_CallbackInvokedOnce ==
    lastCall.op = "request" =>
        /\ Len(lastCall.callbacks) = 1
        /\ lastCall.callbacks[1].cancel <=>
              /\ isEnabled
              /\ lastCall.resourceType # "mainFrame"
              /\ ShouldBlock(isEnabled, filterRules, exceptionRules, probe)
        /\ lastCall.result = lastCall.callbacks[1].cancel

\* A request that is no main frame has been cancelled by one callback
C26_Witness ==
    /\ lastCall.op = "request"
    /\ isEnabled
    /\ lastCall.resourceType # "mainFrame"
    /\ lastCall.callbacks = <<[cancel |-> TRUE]>>

\* C27: whenever the blocker is initialised and isAdBlockerEnabled() is
\* false, no session has blocking enabled: setAdBlockerEnabled(s, false)
\* turns blocking off in the default session and in every session passed to
\* applyAdBlockerToSession, not only in s.
C27_DisabledInEverySession ==
    (blocker # BlockerNull /\ ~adBlockerEnabled) => blockingIn = {}

\* C28: a session passed to applyAdBlockerToSession while the flag is set
\* and blocker is still null gets blocking enabled eventually, once the
\* initialisation has completed with the flag still set (unless the flag is
\* cleared or the process ends first).
C28_EarlySessionEventuallyBlocked ==
    \A s \in Sessions :
        (s \in appliedEarly /\ lastCall.op = "initializeDone" /\ adBlockerEnabled)
        ~> (s \in blockingIn \/ ~adBlockerEnabled \/ blocker = BlockerNull)

\* C29: after any sequence of updateStats and syncStatsFromBlocker calls,
\* the session counts getAdBlockerStats returns do not exceed the totals it
\* returns (a request the blocker reports is counted once): stated for the
\* calls made when syncStatsFromBlocker has seen every request the blocker
\* has counted.
C29_SessionCountsWithinTotals ==
    (lastCall.op = "getAdBlockerStats" /\ lastBlockerStats = blockerStats)
    => /\ lastCall.result.blocked <= lastCall.result.totalBlocked
       /\ lastCall.result.allowed <= lastCall.result.totalAllowed

\* The requests counted in the totals
TotalCounted == stats.totalBlocked + stats.totalAllowed

=============================================================================
